---- MODULE Spec2Model ----
(***************************************************************************)
(* TRBBFI - the Brainfuck interpreter of src/trbbfi.cpp.                   *)
(*                                                                         *)
(* The model follows class BrainfuckInterpreter: its fields memory, code,  *)
(* memptr, codeptr and loop_stack, and its methods loadCode,               *)
(* validateBrackets, reset and execute.  execute is split at the head of   *)
(* its while loop: one action for the call (validation and the clearing    *)
(* of lines 64-73), one for each iteration of the loop (lines 75-147) and  *)
(* one for the normal return (line 148), so that a program that never      *)
(* terminates is a behaviour that never leaves pc = "running".             *)
(*                                                                         *)
(* An interpreter object is a record.  Besides the fields of the class it  *)
(* carries the streams the run reads and writes (cin, cout, cerr), the     *)
(* position of the call (pc) and the value execute returned (ret).         *)
(*                                                                         *)
(* The tape sizes of the source (30000 cells, limit 1000000) are scaled    *)
(* down to TapeInit and TapeCap: the code only compares against them and   *)
(* doubles, and as in the source the cap is not a doubling of the initial  *)
(* size, so the std::min of line 89 decides the last growth.               *)
(*                                                                         *)
(* class Shell (lines 169-289) is a record too: current_program,           *)
(* debug_mode, whether its loop still reads, the line it handled last and  *)
(* the text it answered; each command of Shell::run is an action of SpecS. *)
(* size_t arithmetic (dumpMemory, std::stoul) is kept modulo SizeMod.      *)
(***************************************************************************)
EXTENDS Integers, Sequences, FiniteSets, TLC

\* Scaled stand-in for the initial tape size, memory(30000, 0) of line 33.
TapeInit == 2
\* Scaled stand-in for the memory limit 1000000 of lines 85 and 89.
TapeCap == 5
\* Longest program text of the bracket-validation specification SpecV.
MaxLen == 5
\* A run is followed as long as it has written fewer than MaxOut entries to
\* its output stream (a program can write without end).
MaxOut == 6

VARIABLES
    interpreter,   \* the BrainfuckInterpreter object and the streams of its run
    twin,          \* a freshly constructed interpreter given the same program and input
    lastOp,        \* the method called last
    valid,         \* what the last direct call of validateBrackets returned
    shell,         \* the Shell object: current_program, its loop and what it printed last
    executed,      \* how often the run has executed the instruction at each position
    view           \* what dumpMemory printed for the line the shell handled last

vars == <<interpreter, twin, lastOp, valid, shell, executed, view>>

\* What the methods of the interpreter leave alone.
aux == <<shell, executed, view>>

----------------------------------------------------------------------------
\* Values

Min(a, b) == IF a < b THEN a ELSE b

Zeros(n) == [i \in 1..n |-> 0]

\* One item of an output stream: a byte written by '.', or one of the texts.
Byte(v) == [kind |-> "byte", val |-> v]
Text(k, at) == [kind |-> k, val |-> at]

\* The eight instruction symbols (lines 40-41).
IsInstruction(c) == c \in {">", "<", "+", "-", ".", ",", "[", "]"}

\* The cell at index i of a tape (the vector is indexed from 0).
Cell(memory, i) == memory[i + 1]

\* BrainfuckInterpreter(): memory(30000, 0), memptr(0), codeptr(0),
\* debug_mode(false); the streams are empty and no call is in progress.
NewInterpreter ==
    [memory |-> Zeros(TapeInit), code |-> <<>>, memptr |-> 0, codeptr |-> 0,
     loop_stack |-> <<>>, debug_mode |-> FALSE,
     cin |-> <<>>, cout |-> <<>>, cerr |-> <<>>,
     pc |-> "idle", ret |-> "none"]

\* setDebug (line 35)
setDebug(e, debug) == [e EXCEPT !.debug_mode = debug]

----------------------------------------------------------------------------
\* loadCode (lines 37-45)

\* The loop of lines 39-44: the characters of the text that pass the test of
\* lines 40-41, pushed back in the order they are met.
filterFrom(program) == SelectSeq(program, IsInstruction)

\* Mutation: the program loaded before is kept, the new one added to it.
loadCode_Appends(e, program) == [e EXCEPT !.code = @ \o filterFrom(program)]

loadCode(e, program) == [e EXCEPT !.code = filterFrom(program)]

----------------------------------------------------------------------------
\* validateBrackets (lines 47-55)

\* The loop of lines 49-53 over code[lo..hi], in order: the balance after
\* it, a negative balance standing for the return false of line 52 (the
\* loop is left, the balance stays as it is).  The range is halved as in
\* filterFrom.
RECURSIVE scanBalance(_, _, _, _)
scanBalance(code, lo, hi, balance) ==
    IF balance < 0 \/ lo > hi THEN balance
    ELSE IF lo = hi
         THEN IF code[lo] = "[" THEN balance + 1
              ELSE IF code[lo] = "]" THEN balance - 1
              ELSE balance
         ELSE LET mid == (lo + hi) \div 2
              IN  scanBalance(code, mid + 1, hi, scanBalance(code, lo, mid, balance))

\* Opening minus closing brackets among the first k instructions.
Balance(code, k) ==
    Cardinality({i \in 1..k : code[i] = "["}) - Cardinality({i \in 1..k : code[i] = "]"})

\* Mutation: every program passes.
validateBrackets_Always(code) == TRUE

\* Mutation: the scan without the early return of line 52.
validateBrackets_NoEarlyReturn(code) == Balance(code, Len(code)) = 0

\* Mutation: the scan returning true at the end instead of balance == 0.
validateBrackets_NoFinalCheck(code) == \A k \in 0..Len(code) : Balance(code, k) >= 0

validateBrackets(code) == scanBalance(code, 1, Len(code), 0) = 0

----------------------------------------------------------------------------
\* reset (lines 57-62)

\* Mutation: reset that also gives the tape its initial size back.
reset_Shrinks(e) ==
    [e EXCEPT !.memory = Zeros(TapeInit),
              !.memptr = 0,
              !.codeptr = 0,
              !.loop_stack = <<>>]

reset(e) ==
    [e EXCEPT !.memory = Zeros(Len(e.memory)),
              !.memptr = 0,
              !.codeptr = 0,
              !.loop_stack = <<>>]

----------------------------------------------------------------------------
\* execute, up to the head of the while loop (lines 64-73)

\* Mutation: the clearing of lines 70-73 done before the validation.
executeEntry_ClearsFirst(e) ==
    LET c == [e EXCEPT !.codeptr = 0,
                       !.memptr = 0,
                       !.loop_stack = <<>>,
                       !.memory = Zeros(Len(e.memory))]
    IN  IF ~validateBrackets(e.code)
        THEN [c EXCEPT !.cerr = Append(@, Text("UnmatchedBrackets", 0)),
                       !.ret = "false"]
        ELSE [c EXCEPT !.pc = "running"]

\* Mutation: the std::fill of line 73 left out.
executeEntry_KeepsTape(e) ==
    IF ~validateBrackets(e.code)
    THEN [e EXCEPT !.cerr = Append(@, Text("UnmatchedBrackets", 0)),
                   !.ret = "false"]
    ELSE [e EXCEPT !.codeptr = 0,
                   !.memptr = 0,
                   !.loop_stack = <<>>,
                   !.pc = "running"]

executeEntry(e) ==
    IF ~validateBrackets(e.code)
    THEN [e EXCEPT !.cerr = Append(@, Text("UnmatchedBrackets", 0)),
                   !.ret = "false"]
    ELSE [e EXCEPT !.codeptr = 0,
                   !.memptr = 0,
                   !.loop_stack = <<>>,
                   !.memory = Zeros(Len(e.memory)),
                   !.pc = "running"]

----------------------------------------------------------------------------
\* execute, the cases of the switch (lines 81-145).  Each gives the object
\* after the case; a case that returns false leaves pc = "idle".

\* Mutation: the tape doubled without the std::min of line 89.
moveRight_NoCap(e) ==
    LET p == e.memptr + 1
        size == Len(e.memory)
    IN  IF p >= size
        THEN IF size >= TapeCap
             THEN [e EXCEPT !.memptr = p,
                            !.cout = Append(@, Text("MemoryLimitExceeded", 0)),
                            !.pc = "idle",
                            !.ret = "false"]
             ELSE [e EXCEPT !.memptr = p,
                            !.memory = @ \o Zeros(size)]
        ELSE [e EXCEPT !.memptr = p]

\* Mutation: the tape replaced by a zeroed one of the new size.
moveRight_LosesCells(e) ==
    LET p == e.memptr + 1
        size == Len(e.memory)
    IN  IF p >= size
        THEN IF size >= TapeCap
             THEN [e EXCEPT !.memptr = p,
                            !.cout = Append(@, Text("MemoryLimitExceeded", 0)),
                            !.pc = "idle",
                            !.ret = "false"]
             ELSE [e EXCEPT !.memptr = p,
                            !.memory = Zeros(Min(size * 2, TapeCap))]
        ELSE [e EXCEPT !.memptr = p]

\* case '>' (lines 82-91)
moveRight(e) ==
    LET p == e.memptr + 1
        size == Len(e.memory)
    IN  IF p >= size
        THEN IF size >= TapeCap
             THEN [e EXCEPT !.memptr = p,
                            !.cout = Append(@, Text("MemoryLimitExceeded", 0)),
                            !.pc = "idle",
                            !.ret = "false"]
             ELSE [e EXCEPT !.memptr = p,
                            !.memory = @ \o Zeros(Min(size * 2, TapeCap) - size)]
        ELSE [e EXCEPT !.memptr = p]

\* Mutation: '<' at the first cell ends the run as a failure.
moveLeft_FailsAtZero(e) ==
    IF e.memptr > 0 THEN [e EXCEPT !.memptr = @ - 1]
    ELSE [e EXCEPT !.pc = "idle", !.ret = "false"]

\* case '<' (lines 92-94)
moveLeft(e) == IF e.memptr > 0 THEN [e EXCEPT !.memptr = @ - 1] ELSE e

\* Mutation: the cell counts past 255.
increment_NoWrap(e) == [e EXCEPT !.memory[e.memptr + 1] = @ + 1]

\* case '+' (lines 95-97), on an unsigned char
increment(e) == [e EXCEPT !.memory[e.memptr + 1] = (@ + 1) % 256]

\* case '-' (lines 98-100), on an unsigned char
decrement(e) == [e EXCEPT !.memory[e.memptr + 1] = (@ + 255) % 256]

\* case '.' (lines 101-104)
putByte(e) == [e EXCEPT !.cout = Append(@, Byte(Cell(e.memory, e.memptr)))]

\* Mutation: an exhausted input stream leaves the cell as it is.
getByte_KeepsCell(e) ==
    IF e.cin = <<>>
    THEN e
    ELSE [e EXCEPT !.memory[e.memptr + 1] = Head(e.cin) % 256,
                   !.cin = Tail(e.cin)]

\* case ',' (lines 105-115): get() on an exhausted stream sets failbit, so
\* the first branch stores 0; otherwise the byte read is stored.
getByte(e) ==
    IF e.cin = <<>>
    THEN [e EXCEPT !.memory[e.memptr + 1] = 0]
    ELSE [e EXCEPT !.memory[e.memptr + 1] = Head(e.cin) % 256,
                   !.cin = Tail(e.cin)]

\* The forward scan of lines 120-124 over the positions lo..hi (counted
\* from 0), in order, from the state s = <<pos, balance>>: the state when
\* the loop ends.  A pass looks at code[pos] and increments pos; no pass
\* runs once the balance is 0.  The range is halved as in filterFrom.
RECURSIVE scanForward(_, _, _, _)
scanForward(code, lo, hi, s) ==
    IF s[2] <= 0 \/ lo > hi THEN s
    ELSE IF lo = hi
         THEN <<lo + 1,
                IF code[lo + 1] = "[" THEN s[2] + 1
                ELSE IF code[lo + 1] = "]" THEN s[2] - 1
                ELSE s[2]>>
         ELSE LET mid == (lo + hi) \div 2
              IN  scanForward(code, mid + 1, hi, scanForward(code, lo, mid, s))

\* Mutation: the loop entered whatever the cell holds (a do-while loop).
openLoop_AlwaysEnters(e) == [e EXCEPT !.loop_stack = Append(@, e.codeptr)]

\* case '[' (lines 116-133)
openLoop(e) ==
    IF Cell(e.memory, e.memptr) = 0
    THEN LET s == scanForward(e.code, e.codeptr + 1, Len(e.code) - 1,
                              <<e.codeptr + 1, 1>>)
         IN  IF s[2] > 0
             THEN [e EXCEPT !.cout = Append(@, Text("UnmatchedOpenBracket", e.codeptr)),
                            !.pc = "idle",
                            !.ret = "false"]
             ELSE [e EXCEPT !.codeptr = s[1] - 1]
    ELSE [e EXCEPT !.loop_stack = Append(@, e.codeptr)]

\* Mutation: the test of the cell is inverted.
closeLoop_Inverted(e) ==
    IF e.loop_stack = <<>>
    THEN [e EXCEPT !.cout = Append(@, Text("UnmatchedCloseBracket", e.codeptr)),
                   !.pc = "idle",
                   !.ret = "false"]
    ELSE IF Cell(e.memory, e.memptr) = 0
         THEN [e EXCEPT !.codeptr = e.loop_stack[Len(e.loop_stack)]]
         ELSE [e EXCEPT !.loop_stack = SubSeq(@, 1, Len(@) - 1)]

\* Mutation: the jump back to the '[' also pops its entry.
closeLoop_PopsOnJump(e) ==
    IF e.loop_stack = <<>>
    THEN [e EXCEPT !.cout = Append(@, Text("UnmatchedCloseBracket", e.codeptr)),
                   !.pc = "idle",
                   !.ret = "false"]
    ELSE IF Cell(e.memory, e.memptr) # 0
         THEN [e EXCEPT !.codeptr = e.loop_stack[Len(e.loop_stack)],
                        !.loop_stack = SubSeq(@, 1, Len(@) - 1)]
         ELSE [e EXCEPT !.loop_stack = SubSeq(@, 1, Len(@) - 1)]

\* case ']' (lines 134-144)
closeLoop(e) ==
    IF e.loop_stack = <<>>
    THEN [e EXCEPT !.cout = Append(@, Text("UnmatchedCloseBracket", e.codeptr)),
                   !.pc = "idle",
                   !.ret = "false"]
    ELSE IF Cell(e.memory, e.memptr) # 0
         THEN [e EXCEPT !.codeptr = e.loop_stack[Len(e.loop_stack)]]
         ELSE [e EXCEPT !.loop_stack = SubSeq(@, 1, Len(@) - 1)]

\* The switch of lines 81-145.
dispatch(e) ==
    LET c == e.code[e.codeptr + 1]
    IN  CASE c = ">" -> moveRight(e)
          [] c = "<" -> moveLeft(e)
          [] c = "+" -> increment(e)
          [] c = "-" -> decrement(e)
          [] c = "." -> putByte(e)
          [] c = "," -> getByte(e)
          [] c = "[" -> openLoop(e)
          [] c = "]" -> closeLoop(e)

\* The line of lines 77-78: the instruction pointer, the symbol, the data
\* pointer and the value of the current cell.
DebugLine(e) ==
    Text("debug", <<e.codeptr, e.code[e.codeptr + 1], e.memptr,
                    Cell(e.memory, e.memptr)>>)

\* Mutation: the line is written to the output stream.
trace_OnOutput(e) ==
    IF e.debug_mode THEN [e EXCEPT !.cout = Append(@, DebugLine(e))] ELSE e

\* The debug trace at the head of a pass (lines 76-79).
trace(e) ==
    IF e.debug_mode THEN [e EXCEPT !.cerr = Append(@, DebugLine(e))] ELSE e

\* One pass through the while loop (lines 75-147), or the return of line 148
\* when its condition fails.
loopPass(e) ==
    IF e.codeptr < Len(e.code)
    THEN LET r == dispatch(trace(e))
         IN  IF r.pc = "running" THEN [r EXCEPT !.codeptr = @ + 1] ELSE r
    ELSE [e EXCEPT !.pc = "idle", !.ret = "true"]

\* The next step of a call of execute on e, if the call is still running.
advance(e) == IF e.pc = "running" THEN loopPass(e) ELSE e

----------------------------------------------------------------------------
\* The inputs of the model

\* Program texts handed to loadCode; "x" and " " stand for the characters
\* that loadCode drops.
Texts ==
    { <<>>,
      <<"+">>,
      <<"x", "+", " ", "+", "[", "-", " ", "]">>,
      <<"[", "+">>,
      <<"+", "]">>,
      <<"]", "[">>,
      <<"+", "[", ">", "+", "]">>,
      <<"+", ">", "+", ">", "+", ".">>,
      <<",", ".">>,
      <<"<", "<", "+", ".">>,
      <<"[", "-", "]", ">">>,
      <<"+", "[", "]">>,
      <<",", "[", ">", "+", "<", "-", "]">>,
      <<"+", "[", "[", "-", "]", "]">>,
      <<">", ">", ">", ">", ">", ">">> }

\* Contents of the input stream at the start of a run.
Inputs == { <<>>, <<2>>, <<0, 1>> }

----------------------------------------------------------------------------
\* The operations

\* No line read yet.
NoLine == [eof |-> FALSE, cmd |-> "", args |-> <<>>]

\* Shell() and the head of Shell::run (lines 176, 211-213): no program
\* text, debug mode off, the command loop not yet left, the banner printed,
\* no line read.
NewShell ==
    [current_program |-> <<>>, debug_mode |-> FALSE, pc |-> "reading",
     said |-> "banner", line |-> NoLine]

\* Nothing dumped yet.
NoView ==
    [start |-> 0, count |-> 0, error |-> FALSE, header |-> <<>>, cells |-> <<>>]

Init ==
    /\ interpreter = NewInterpreter
    /\ twin = NewInterpreter
    /\ lastOp = "new"
    /\ valid = FALSE
    /\ shell = NewShell
    /\ executed = <<>>
    /\ view = NoView

\* interpreter.loadCode(program)
LoadFrom(S) ==
    /\ interpreter.pc = "idle"
    /\ \E program \in S : interpreter' = loadCode(interpreter, program)
    /\ twin' = NewInterpreter
    /\ lastOp' = "loadCode"
    /\ UNCHANGED <<valid, aux>>

LoadCode == LoadFrom(Texts)

\* interpreter.reset()
Reset ==
    /\ interpreter.pc = "idle"
    /\ interpreter' = reset(interpreter)
    /\ twin' = NewInterpreter
    /\ lastOp' = "reset"
    /\ UNCHANGED <<valid, aux>>

\* A call of interpreter.execute() with `input` on the input stream, as far
\* as the head of the while loop.  The twin is a new interpreter that loads
\* the same instructions and is run on the same input.
ExecuteOn(S, twincode) ==
    /\ interpreter.pc = "idle"
    /\ \E input \in S :
          /\ interpreter' = executeEntry([interpreter EXCEPT !.cin = input,
                                                             !.cout = <<>>,
                                                             !.cerr = <<>>,
                                                             !.ret = "none"])
          /\ twin' = executeEntry([NewInterpreter EXCEPT !.code = twincode,
                                                         !.cin = input])
    /\ lastOp' = "execute"
    /\ UNCHANGED valid

Execute == ExecuteOn(Inputs, interpreter.code) /\ UNCHANGED aux

\* One pass of the while loop of the running program (lines 75-147), as far
\* as the interpreter itself goes.
RunStep ==
    /\ interpreter.pc = "running"
    /\ interpreter.codeptr < Len(interpreter.code)
    /\ Len(interpreter.cout) < MaxOut
    /\ interpreter' = loopPass(interpreter)
    /\ UNCHANGED <<lastOp, valid, shell, view>>

\* One instruction of the running program (lines 75-147).
ExecStep ==
    /\ RunStep
    /\ twin' = advance(twin)
    /\ UNCHANGED executed

\* The end of the program: return true (line 148).
ExecReturn ==
    /\ interpreter.pc = "running"
    /\ interpreter.codeptr >= Len(interpreter.code)
    /\ interpreter' = loopPass(interpreter)
    /\ twin' = advance(twin)
    /\ UNCHANGED <<lastOp, valid, aux>>

\* Program texts of the bracket-validation specification: every text of at
\* most MaxLen symbols over '[', ']', '>' and '+'.
BracketTexts ==
    UNION {[1..n -> {"[", "]", ">", "+"}] : n \in 0..MaxLen}

\* A direct call of interpreter.validateBrackets()
Validate ==
    /\ interpreter.pc = "idle"
    /\ valid' = validateBrackets(interpreter.code)
    /\ lastOp' = "validateBrackets"
    /\ UNCHANGED <<interpreter, twin, aux>>

Next == LoadCode \/ Reset \/ Execute \/ ExecStep \/ ExecReturn

Spec == Init /\ [][Next]_vars

\* The batch invocation of main (lines 334-337): a new interpreter with one
\* text loaded, here any bracket text up to MaxLen, then calls of its
\* methods.
InitV ==
    /\ \E program \in BracketTexts : interpreter = loadCode(NewInterpreter, program)
    /\ twin = NewInterpreter
    /\ lastOp = "loadCode"
    /\ valid = FALSE
    /\ shell = NewShell
    /\ executed = <<>>
    /\ view = NoView

NextV == Validate \/ Reset \/ Execute \/ ExecStep \/ ExecReturn

SpecV == InitV /\ [][NextV]_vars

----------------------------------------------------------------------------
\* Runs of the counting programs: n times '+', then "[-]"

\* The largest value of an unsigned char cell (line 25).
MaxByte == 255

Repeat(c, n) == [i \in 1..n |-> c]

CountedLoop(n) == Repeat("+", n) \o <<"[", "-", "]">>

\* execute() called, the count of executed instructions started afresh.
\* These programs read no input: the input stream is left empty.
ExecuteCounted ==
    /\ ExecuteOn({<<>>}, interpreter.code)
    /\ executed' = Zeros(Len(interpreter.code))
    /\ UNCHANGED <<shell, view>>

\* One instruction of the running program, counted at its position.
CountedStep ==
    /\ RunStep
    /\ twin' = advance(twin)
    /\ executed' = [executed EXCEPT ![interpreter.codeptr + 1] = @ + 1]

\* The batch invocation of main on one of the counting programs.
InitL ==
    /\ \E n \in 0..MaxByte : interpreter = loadCode(NewInterpreter, CountedLoop(n))
    /\ twin = NewInterpreter
    /\ lastOp = "loadCode"
    /\ valid = FALSE
    /\ shell = NewShell
    /\ executed = <<>>
    /\ view = NoView

NextL == ExecuteCounted \/ CountedStep \/ ExecReturn \/ Reset

SpecL == InitL /\ [][NextL]_vars

----------------------------------------------------------------------------
\* Runs of every short program

\* The longest program of this specification.
MaxProg == 3

\* The eight instruction symbols (the switch of lines 81-145 and the test of
\* line 40).
Symbols == {">", "<", "+", "-", ".", ",", "[", "]"}

\* Every program of at most MaxProg instructions.
Programs == UNION {[1..n -> Symbols] : n \in 0..MaxProg}

\* The input streams of these runs: empty, the largest byte, two bytes.
Streams == {<<>>, <<255>>, <<2, 0>>}

\* The batch invocation of main (lines 308-337): a new interpreter with one
\* program loaded.
InitP ==
    /\ \E program \in Programs : interpreter = loadCode(NewInterpreter, program)
    /\ twin = NewInterpreter
    /\ lastOp = "loadCode"
    /\ valid = FALSE
    /\ shell = NewShell
    /\ executed = <<>>
    /\ view = NoView

\* A call of interpreter.execute() on one of the input streams.
ExecuteProgram == ExecuteOn(Streams, interpreter.code) /\ UNCHANGED aux

NextP == ExecuteProgram \/ ExecStep \/ ExecReturn \/ Reset

SpecP == InitP /\ [][NextP]_vars

----------------------------------------------------------------------------
\* Runs of a program behind leading '<' symbols, beside runs of the program
\* alone

\* The largest number of leading '<' symbols.
MaxLead == 2

\* The number of leading '<' symbols of the interpreter's program, the
\* twin holding the program alone.
Lead == Len(interpreter.code) - Len(twin.code)

\* Two invocations of main (lines 308-337): the interpreter loads k times
\* '<' followed by a program, the twin loads the program alone.
InitK ==
    /\ \E program \in Programs, k \in 0..MaxLead :
          /\ interpreter = loadCode(NewInterpreter, Repeat("<", k) \o program)
          /\ twin = loadCode(NewInterpreter, program)
    /\ lastOp = "loadCode"
    /\ valid = FALSE
    /\ shell = NewShell
    /\ executed = <<>>
    /\ view = NoView

\* A call of execute() on both, on the same input stream; the twin starts
\* from the tape and pointers the interpreter starts from.
ExecuteLed ==
    /\ interpreter.pc = "idle"
    /\ \E input \in Streams :
          LET e == [interpreter EXCEPT !.cin = input,
                                       !.cout = <<>>,
                                       !.cerr = <<>>,
                                       !.ret = "none"]
          IN  /\ interpreter' = executeEntry(e)
              /\ twin' = executeEntry([e EXCEPT !.code = twin.code])
    /\ lastOp' = "execute"
    /\ UNCHANGED <<valid, aux>>

\* One pass of the interpreter's while loop; the twin makes its pass once
\* the interpreter is past the leading symbols.
LedStep ==
    /\ RunStep
    /\ twin' = IF interpreter.codeptr >= Lead THEN advance(twin) ELSE twin
    /\ UNCHANGED executed

NextK == ExecuteLed \/ LedStep \/ ExecReturn

SpecK == InitK /\ [][NextK]_vars

----------------------------------------------------------------------------
\* The interactive shell (Shell::run, lines 211-288)

\* size_t values are kept modulo SizeMod (2^64 in the program).
SizeMod == 32

\* The limit on the length of the text of a code command (10000 in the
\* program, line 253).
InlineLimit == 6

\* The limit on the size of a loaded file (1000000 in the program, line 243).
FileLimit == 7

\* The default count of dumpMemory (lines 151, 262).
DefaultCount == 16

\* The files that can be opened, by name: a small program with a character
\* that loadCode drops, the same under a name with "..", a file of exactly
\* the size limit and one a byte larger.
Files ==
    (<<"a">> :> <<",", "x", ".">>) @@
    (<<".", ".", "/", "a">> :> <<",", "x", ".">>) @@
    (<<"e">> :> Repeat("x", FileLimit)) @@
    (<<"b">> :> Repeat("x", FileLimit + 1))

\* The lines on the shell's input, trimmed and split into the command word
\* and the tokens after it; eof is the failure of getline.
Line(cmd, args) == [eof |-> FALSE, cmd |-> cmd, args |-> args]

Lines ==
    { [eof |-> TRUE, cmd |-> "", args |-> <<>>],
      Line("", <<>>),
      Line("exit", <<>>), Line("quit", <<>>), Line("q", <<>>),
      Line("exit", << <<"x">> >>),
      Line("h", <<>>),
      Line("load", <<>>),
      Line("load", << <<"a">> >>),
      Line("load", << <<".", ".", "/", "a">> >>),
      Line("load", << <<"e">> >>),
      Line("load", << <<"b">> >>),
      Line("load", << <<"n">> >>),
      Line("code", <<>>),
      Line("code", << <<"x", "+", ">">> >>),
      Line("code", << <<"+">>, <<"[">> >>),
      Line("code", << Repeat("x", InlineLimit) >>),
      Line("code", << Repeat("x", InlineLimit - 1), <<"+">> >>),
      Line("run", <<>>),
      Line("reset", <<>>),
      Line("dump", <<>>),
      Line("dump", << <<"1">> >>),
      Line("dump", << <<"0">>, <<"1">> >>),
      Line("dump", << <<"1">>, <<"-", "1">> >>),
      Line("dump", << <<"9">> >>),
      Line("dump", << <<"x">> >>),
      Line("dump", << <<"1">>, <<"x">> >>),
      Line("dump", << <<"9", "9">> >>),
      Line("debug", <<>>),
      Line("debug", << <<"O", "n">> >>),
      Line("d", << <<"o", "f", "f">> >>),
      Line("debug", << <<"x">> >>),
      Line("s", <<>>),
      Line("clear", <<>>),
      Line("status", <<>>),
      Line("foo", <<>>) }

\* The bytes on standard input ahead of the next line when a program is
\* run from the shell.
ShellInputs == { <<>>, <<2>> }

\* filename.find("..") != npos (line 238)
find(filename) ==
    \E i \in 1..(Len(filename) - 1) : filename[i] = "." /\ filename[i + 1] = "."

\* The tokens after the command word joined by single spaces (line 252).
RECURSIVE join(_)
join(tokens) ==
    IF Len(tokens) = 1 THEN tokens[1]
    ELSE tokens[1] \o <<" ">> \o join(Tail(tokens))

\* Mutation: no text of a code command is too long.
tooLong_Never(program) == FALSE

\* program.length() > 10000 (line 253)
tooLong(program) == Len(program) > InlineLimit

\* ::tolower on the characters of the debug argument (line 269)
tolower(token) ==
    [i \in 1..Len(token) |->
        CASE token[i] = "O" -> "o"
          [] token[i] = "N" -> "n"
          [] token[i] = "F" -> "f"
          [] OTHER -> token[i]]

\* The value of a decimal digit.
DigitValue ==
    ("0" :> 0) @@ ("1" :> 1) @@ ("2" :> 2) @@ ("3" :> 3) @@ ("4" :> 4) @@
    ("5" :> 5) @@ ("6" :> 6) @@ ("7" :> 7) @@ ("8" :> 8) @@ ("9" :> 9)

\* The value of the digits of token from position i on, up to the first
\* character that is no digit, continuing from acc; -1 once it is out of
\* the range of unsigned long.
RECURSIVE digitsFrom(_, _, _)
digitsFrom(token, i, acc) ==
    IF i > Len(token) \/ token[i] \notin DOMAIN DigitValue THEN acc
    ELSE LET v == 10 * acc + DigitValue[token[i]]
         IN  IF v >= SizeMod THEN -1 ELSE digitsFrom(token, i + 1, v)

\* std::stoul(token) (lines 263-264): an optional sign, then digits, what
\* follows them ignored; it throws when there is no digit or the value is
\* out of range, and a '-' negates the value as an unsigned long.
stoul(token) ==
    LET signed == token # <<>> /\ token[1] \in {"+", "-"}
        first  == IF signed THEN 2 ELSE 1
        v      == digitsFrom(token, first, 0)
    IN  IF first > Len(token) \/ token[first] \notin DOMAIN DigitValue \/ v < 0
        THEN [thrown |-> TRUE, val |-> 0]
        ELSE [thrown |-> FALSE,
              val |-> IF signed /\ token[1] = "-" THEN (SizeMod - v) % SizeMod ELSE v]

\* dumpMemory(start, count) (lines 151-163): what it prints, with the
\* arguments it was called with.
dumpMemory(e, start, count) ==
    IF start >= Len(e.memory)
    THEN [start |-> start, count |-> count, error |-> TRUE,
          header |-> <<>>, cells |-> <<>>]
    ELSE LET end == Min((start + count) % SizeMod, Len(e.memory))
         IN  [start |-> start, count |-> count, error |-> FALSE,
              header |-> <<start, (end + SizeMod - 1) % SizeMod>>,
              cells |-> IF end > start
                        THEN [k \in 1..(end - start) |->
                                [index  |-> start + k - 1,
                                 value  |-> Cell(e.memory, start + k - 1),
                                 marked |-> start + k - 1 = e.memptr]]
                        ELSE <<>>]

\* getline returned this line, which was neither empty nor exit, quit or q
\* (lines 217-229); the interpreter is not inside execute().
Reads(line) ==
    /\ shell.pc = "reading"
    /\ interpreter.pc = "idle"
    /\ ~line.eof

\* The shell has handled the line and printed the text.  (view is what
\* dumpMemory printed while the last line was handled, if it was called.)
Says(line, text) == shell' = [shell EXCEPT !.line = line, !.said = text]

\* Mutation: an unknown command ends the loop.
unknownCommand_Leaves(sh, line) ==
    [sh EXCEPT !.line = line, !.said = "Unknown command", !.pc = "done"]

\* The last branch (line 285).
unknownCommand(sh, line) == [sh EXCEPT !.line = line, !.said = "Unknown command"]

\* getline fails (lines 217-220).
EndOfInput ==
    /\ shell.pc = "reading"
    /\ interpreter.pc = "idle"
    /\ shell' = [shell EXCEPT !.line = [eof |-> TRUE, cmd |-> "", args |-> <<>>],
                              !.said = "Bye",
                              !.pc = "done"]
    /\ view' = NoView
    /\ UNCHANGED <<interpreter, twin, lastOp, valid, executed>>

\* An empty line (line 225), or one of only blanks (line 229).
EmptyLine ==
    /\ Reads(Line("", <<>>))
    /\ Line("", <<>>) \in Lines
    /\ Says(Line("", <<>>), "")
    /\ view' = NoView
    /\ UNCHANGED <<interpreter, twin, lastOp, valid, executed>>

\* exit, quit or q (line 226)
Exit ==
    /\ \E line \in Lines :
          /\ Reads(line)
          /\ line.cmd \in {"exit", "quit", "q"}
          /\ line.args = <<>>
          /\ shell' = [shell EXCEPT !.line = line, !.said = "Goodbye", !.pc = "done"]
    /\ view' = NoView
    /\ UNCHANGED <<interpreter, twin, lastOp, valid, executed>>

\* help, h (line 234)
Help ==
    /\ \E line \in Lines :
          /\ Reads(line)
          /\ line.cmd \in {"help", "h"}
          /\ Says(line, "help")
    /\ view' = NoView
    /\ UNCHANGED <<interpreter, twin, lastOp, valid, executed>>

\* load (lines 235-248)
Load ==
    \E line \in Lines :
       /\ Reads(line)
       /\ line.cmd = "load"
       /\ IF Len(line.args) < 1
          THEN Says(line, "Usage: load") /\ UNCHANGED <<interpreter, lastOp>>
          ELSE LET filename == line.args[1]
               IN  IF find(filename)
                   THEN Says(line, "Invalid filename") /\ UNCHANGED <<interpreter, lastOp>>
                   ELSE IF filename \notin DOMAIN Files
                   THEN Says(line, "Cannot open file") /\ UNCHANGED <<interpreter, lastOp>>
                   ELSE IF Len(Files[filename]) > FileLimit
                   THEN Says(line, "File too large") /\ UNCHANGED <<interpreter, lastOp>>
                   ELSE /\ interpreter' = loadCode(interpreter, Files[filename])
                        /\ shell' = [shell EXCEPT !.line = line,
                                                  !.said = "Loaded",
                                                  !.current_program = Files[filename]]
                        /\ lastOp' = "loadCode"
       /\ view' = NoView
       /\ UNCHANGED <<twin, valid, executed>>

\* code (lines 249-256)
Code ==
    \E line \in Lines :
       /\ Reads(line)
       /\ line.cmd = "code"
       /\ IF Len(line.args) < 1
          THEN Says(line, "Usage: code") /\ UNCHANGED <<interpreter, lastOp>>
          ELSE LET program == join(line.args)
               IN  IF tooLong(program)
                   THEN Says(line, "Program too long") /\ UNCHANGED <<interpreter, lastOp>>
                   ELSE /\ interpreter' = loadCode(interpreter, program)
                        /\ shell' = [shell EXCEPT !.line = line,
                                                  !.said = "Loaded",
                                                  !.current_program = program]
                        /\ lastOp' = "loadCode"
       /\ view' = NoView
       /\ UNCHANGED <<twin, valid, executed>>

\* run, r (lines 257-259), as far as the head of the while loop of
\* execute(); "Program failed." is printed when execute() returns false.
Run ==
    \E line \in Lines :
       /\ Reads(line)
       /\ line.cmd \in {"run", "r"}
       /\ IF shell.current_program = <<>>
          THEN Says(line, "No program loaded.") /\ UNCHANGED <<interpreter, lastOp>>
          ELSE \E input \in ShellInputs :
                  /\ interpreter' = executeEntry([interpreter EXCEPT !.cin = input,
                                                                     !.cout = <<>>,
                                                                     !.cerr = <<>>,
                                                                     !.ret = "none"])
                  /\ Says(line, IF interpreter'.ret = "false"
                                THEN "Program failed." ELSE "")
                  /\ lastOp' = "execute"
       /\ view' = NoView
       /\ UNCHANGED <<twin, valid, executed>>

\* One pass of the while loop of the program run from the shell, or its
\* return (lines 75-148, 259).
RunPass ==
    /\ shell.pc = "reading"
    /\ shell.line.cmd \in {"run", "r"}
    /\ interpreter.pc = "running"
    /\ interpreter' = loopPass(interpreter)
    /\ shell' = IF interpreter'.ret = "false"
                THEN [shell EXCEPT !.said = "Program failed."]
                ELSE shell
    /\ UNCHANGED <<twin, lastOp, valid, executed, view>>

\* reset (line 260)
ResetCommand ==
    /\ \E line \in Lines :
          /\ Reads(line)
          /\ line.cmd = "reset"
          /\ Says(line, "Interpreter reset")
    /\ interpreter' = reset(interpreter)
    /\ lastOp' = "reset"
    /\ view' = NoView
    /\ UNCHANGED <<twin, valid, executed>>

\* dump (lines 261-266); an exception of stoul is caught at line 286.
Dump ==
    \E line \in Lines :
       /\ Reads(line)
       /\ line.cmd = "dump"
       /\ LET start == IF Len(line.args) > 0 THEN stoul(line.args[1])
                       ELSE [thrown |-> FALSE, val |-> 0]
              count == IF Len(line.args) > 1 THEN stoul(line.args[2])
                       ELSE [thrown |-> FALSE, val |-> DefaultCount % SizeMod]
          IN  IF start.thrown \/ count.thrown
              THEN Says(line, "Error occurred") /\ view' = NoView /\ UNCHANGED lastOp
              ELSE /\ view' = dumpMemory(interpreter, start.val, count.val)
                   /\ Says(line, "dump")
                   /\ lastOp' = "dumpMemory"
       /\ UNCHANGED <<interpreter, twin, valid, executed>>

\* debug, d (lines 267-274)
Debug ==
    /\ \E line \in Lines :
          /\ Reads(line)
          /\ line.cmd \in {"debug", "d"}
          /\ LET arg == IF Len(line.args) > 0 THEN tolower(line.args[1]) ELSE <<>>
             IN  IF arg = <<"o", "n">>
                 THEN /\ interpreter' = setDebug(interpreter, TRUE)
                      /\ shell' = [shell EXCEPT !.line = line, !.said = "Debug mode on",
                                                !.debug_mode = TRUE]
                 ELSE IF arg = <<"o", "f", "f">>
                 THEN /\ interpreter' = setDebug(interpreter, FALSE)
                      /\ shell' = [shell EXCEPT !.line = line, !.said = "Debug mode off",
                                                !.debug_mode = FALSE]
                 ELSE Says(line, "Usage: debug") /\ UNCHANGED interpreter
    /\ view' = NoView
    /\ UNCHANGED <<twin, lastOp, valid, executed>>

\* show, s (lines 275-279)
Show ==
    /\ \E line \in Lines :
          /\ Reads(line)
          /\ line.cmd \in {"show", "s"}
          /\ Says(line, IF shell.current_program = <<>>
                        THEN "No program loaded" ELSE "Program")
    /\ view' = NoView
    /\ UNCHANGED <<interpreter, twin, lastOp, valid, executed>>

\* clear, c (line 280): the shell's text only
Clear ==
    /\ \E line \in Lines :
          /\ Reads(line)
          /\ line.cmd \in {"clear", "c"}
          /\ shell' = [shell EXCEPT !.line = line, !.said = "Program cleared",
                                    !.current_program = <<>>]
    /\ view' = NoView
    /\ UNCHANGED <<interpreter, twin, lastOp, valid, executed>>

\* status (lines 281-285)
Status ==
    /\ \E line \in Lines :
          /\ Reads(line)
          /\ line.cmd = "status"
          /\ Says(line, "Status")
    /\ view' = NoView
    /\ UNCHANGED <<interpreter, twin, lastOp, valid, executed>>

\* The command words with a branch of their own (lines 234-281).
Commands ==
    {"help", "h", "load", "code", "run", "r", "reset", "dump", "debug", "d",
     "show", "s", "clear", "c", "status"}

\* Any other command word (line 285), also exit, quit or q with something
\* after it.
Unknown ==
    /\ \E line \in Lines :
          /\ Reads(line)
          /\ line.cmd # ""
          /\ line.cmd \notin Commands
          /\ ~(line.cmd \in {"exit", "quit", "q"} /\ line.args = <<>>)
          /\ shell' = unknownCommand(shell, line)
    /\ view' = NoView
    /\ UNCHANGED <<interpreter, twin, lastOp, valid, executed>>

NextS ==
    \/ EndOfInput \/ EmptyLine \/ Exit \/ Help \/ Load \/ Code \/ Run \/ RunPass
    \/ ResetCommand \/ Dump \/ Debug \/ Show \/ Clear \/ Status \/ Unknown

SpecS == Init /\ [][NextS]_vars

----------------------------------------------------------------------------
\* Runs of programs with nested loops

\* The longest program of this specification.
MaxNest == 6

\* Every program of at most MaxNest instructions over '[', ']', '-', '>'.
NestTexts == UNION {[1..n -> {"[", "]", "-", ">"}] : n \in 0..MaxNest}

\* The batch invocation of main (lines 308-337): a new interpreter with one
\* program loaded.
InitN ==
    /\ \E program \in NestTexts : interpreter = loadCode(NewInterpreter, program)
    /\ twin = NewInterpreter
    /\ lastOp = "loadCode"
    /\ valid = FALSE
    /\ shell = NewShell
    /\ executed = <<>>
    /\ view = NoView

\* A call of interpreter.execute(); these programs read no input.
ExecuteNested == ExecuteOn({<<>>}, interpreter.code) /\ UNCHANGED aux

NextN == ExecuteNested \/ ExecStep \/ ExecReturn

SpecN == InitN /\ [][NextN]_vars

----------------------------------------------------------------------------
\* Runs in debug mode, beside the same runs with debug mode off

\* The most lines of debug trace a run is followed for.
MaxTrace == 8

\* The invocation of main with a program (lines 308-337); the twin is the
\* same invocation, which stays without -d.
InitD ==
    /\ \E program \in Programs :
          /\ interpreter = loadCode(NewInterpreter, program)
          /\ twin = loadCode(NewInterpreter, program)
    /\ lastOp = "loadCode"
    /\ valid = FALSE
    /\ shell = NewShell
    /\ executed = <<>>
    /\ view = NoView

\* interpreter.setDebug(debug) between runs (lines 332, 269-270).
SetDebug ==
    /\ interpreter.pc = "idle"
    /\ \E debug \in BOOLEAN : interpreter' = setDebug(interpreter, debug)
    /\ lastOp' = "setDebug"
    /\ UNCHANGED <<twin, valid, aux>>

\* A call of execute() on both, on the same input stream; the twin starts
\* from the tape and pointers the interpreter starts from, with debug mode
\* off.
ExecuteDebug ==
    /\ interpreter.pc = "idle"
    /\ \E input \in Streams :
          LET e == [interpreter EXCEPT !.cin = input,
                                       !.cout = <<>>,
                                       !.cerr = <<>>,
                                       !.ret = "none"]
          IN  /\ interpreter' = executeEntry(e)
              /\ twin' = executeEntry(setDebug(e, FALSE))
    /\ lastOp' = "execute"
    /\ UNCHANGED <<valid, aux>>

\* One pass of the while loop of both; a run is followed as long as its
\* trace has fewer than MaxTrace lines.
DebugStep ==
    /\ RunStep
    /\ Len(interpreter.cerr) < MaxTrace
    /\ twin' = advance(twin)
    /\ UNCHANGED executed

NextD == SetDebug \/ ExecuteDebug \/ DebugStep \/ ExecReturn

SpecD == InitD /\ [][NextD]_vars

----------------------------------------------------------------------------
\* Calls of execute(), beside the loop of execute() entered without the
\* validation of lines 65-68

\* Lines 70-73 and the head of the loop, whatever the brackets are.
enterLoop(e) ==
    [e EXCEPT !.codeptr = 0,
              !.memptr = 0,
              !.loop_stack = <<>>,
              !.memory = Zeros(Len(e.memory)),
              !.pc = "running"]

\* The invocation of main with a program (lines 308-337), here any bracket
\* text; the twin holds the same program.
InitU ==
    /\ \E program \in BracketTexts :
          /\ interpreter = loadCode(NewInterpreter, program)
          /\ twin = loadCode(NewInterpreter, program)
    /\ lastOp = "loadCode"
    /\ valid = FALSE
    /\ shell = NewShell
    /\ executed = <<>>
    /\ view = NoView

\* A call of execute() on the interpreter; the twin enters the loop from
\* the same tape on the same input without being validated.
ExecuteBeside ==
    /\ interpreter.pc = "idle"
    /\ twin.pc = "idle"
    /\ \E input \in Inputs :
          LET e == [interpreter EXCEPT !.cin = input,
                                       !.cout = <<>>,
                                       !.cerr = <<>>,
                                       !.ret = "none"]
          IN  /\ interpreter' = executeEntry(e)
              /\ twin' = enterLoop(e)
    /\ lastOp' = "execute"
    /\ UNCHANGED <<valid, aux>>

\* One pass of the loop, or the return, of each that is still running.
PassBeside ==
    /\ interpreter.pc = "running" \/ twin.pc = "running"
    /\ interpreter' = advance(interpreter)
    /\ twin' = advance(twin)
    /\ UNCHANGED <<lastOp, valid, aux>>

NextU == ExecuteBeside \/ PassBeside

SpecU == InitU /\ [][NextU]_vars

----------------------------------------------------------------------------
\* Vocabulary of the properties

\* The step is a call of execute().
CallOfExecute == interpreter.pc = "idle" /\ lastOp' = "execute"

\* The step is a call of reset().
CallOfReset == interpreter.pc = "idle" /\ lastOp' = "reset"

\* The state is the one a call of execute() returned in.
Returned == lastOp = "execute" /\ interpreter.pc = "idle"

\* The texts a run wrote, on either stream.
Reasons(e) ==
    {e.cerr[i].kind : i \in 1..Len(e.cerr)} \cup
    ({e.cout[i].kind : i \in 1..Len(e.cout)} \ {"byte"})

\* Bracket balance never negative at a prefix and zero at the end.
Balanced(code) ==
    /\ \A k \in 0..Len(code) : Balance(code, k) >= 0
    /\ Balance(code, Len(code)) = 0

\* The tape lengths of the doubling sequence that starts at n.
RECURSIVE DoublingFrom(_)
DoublingFrom(n) ==
    IF n >= TapeCap THEN {TapeCap} ELSE {n} \cup DoublingFrom(Min(2 * n, TapeCap))

\* The instruction about to run is a '>' that takes the data pointer to or
\* past the end of the tape.
RightAtEnd ==
    /\ interpreter.pc = "running"
    /\ interpreter.codeptr < Len(interpreter.code)
    /\ interpreter.code[interpreter.codeptr + 1] = ">"
    /\ interpreter.memptr + 1 >= Len(interpreter.memory)

\* The instruction about to run is c.
Executing(c) ==
    /\ interpreter.pc = "running"
    /\ interpreter.codeptr < Len(interpreter.code)
    /\ interpreter.code[interpreter.codeptr + 1] = c

\* code is made of the characters of text that are instruction symbols, in
\* the order they have in text.
IsInstructionsOf(code, text) ==
    LET at == {i \in 1..Len(text) : text[i] \in Symbols}
    IN  /\ Len(code) = Cardinality(at)
        /\ \A i \in at : code[Cardinality({j \in at : j <= i})] = text[i]

\* The step handles a line read by the shell (the line is shell'.line).
HandlesLine == shell.pc = "reading" /\ interpreter.pc = "idle" /\ shell' # shell

\* The line is exit, quit or q and nothing else.
IsExit(line) == ~line.eof /\ line.cmd \in {"exit", "quit", "q"} /\ line.args = <<>>

\* The command words the help text lists (lines 186-196), exit, quit and q
\* aside.
Listed ==
    {"load", "code", "run", "r", "reset", "dump", "debug", "d", "show", "s",
     "clear", "c", "status", "help", "h"}

\* The line starts with a word that is no command.
IsUnknown(line) ==
    ~line.eof /\ line.cmd # "" /\ line.cmd \notin Listed /\ ~IsExit(line)

\* The token is a decimal number.
IsNumber(token) ==
    /\ token # <<>>
    /\ \A i \in 1..Len(token) :
          token[i] \in {"0", "1", "2", "3", "4", "5", "6", "7", "8", "9"}

\* The line is a command without the argument it needs, or a dump with an
\* argument that is no number, or a debug with an argument other than on
\* or off.
IsMalformed(line) ==
    /\ ~line.eof
    /\ \/ line.cmd \in {"load", "code"} /\ line.args = <<>>
       \/ /\ line.cmd = "dump"
          /\ \E i \in 1..Min(2, Len(line.args)) : ~IsNumber(line.args[i])
       \/ /\ line.cmd \in {"debug", "d"}
          /\ \/ line.args = <<>>
             \/ line.args[1] \notin {<<"o", "n">>, <<"O", "n">>, <<"o", "f", "f">>}

\* The number of characters of the text of a code command: its tokens and
\* a space between each two.
RECURSIVE TextLength(_)
TextLength(tokens) ==
    IF tokens = <<>> THEN 0
    ELSE Len(Head(tokens)) + (IF Len(tokens) > 1 THEN 1 ELSE 0) + TextLength(Tail(tokens))

\* The line is a load of a name with two dots in a row or of a file above
\* the size limit, or a code command with a text above the length limit.
IsOverLimit(line) ==
    /\ ~line.eof
    /\ line.args # <<>>
    /\ \/ /\ line.cmd = "load"
          /\ \/ \E i \in 1..(Len(line.args[1]) - 1) :
                   SubSeq(line.args[1], i, i + 1) = <<".", ".">>
             \/ /\ line.args[1] \in DOMAIN Files
                /\ Len(Files[line.args[1]]) > FileLimit
       \/ /\ line.cmd = "code"
          /\ TextLength(line.args) > InlineLimit

\* The position of the ']' that matches the '[' at position p of a balanced
\* program (positions counted from 0): the first one after p that takes
\* the balance back to what it was before p.
MatchOf(code, p) ==
    CHOOSE q \in (p + 1)..(Len(code) - 1) :
       /\ Balance(code, q + 1) = Balance(code, p)
       /\ \A r \in (p + 1)..(q - 1) : Balance(code, r + 1) # Balance(code, p)

\* The positions of the '[' whose loop the position c lies in: they are
\* before c and their ']' is at c or after it.
Enclosing(code, c) ==
    {p \in 0..(c - 1) : code[p + 1] = "[" /\ MatchOf(code, p) >= c}

\* The members of a set of numbers in ascending order.
Ascending(S) ==
    IF S = {} THEN <<>>
    ELSE [k \in 1..Cardinality(S) |->
            CHOOSE x \in S : Cardinality({y \in S : y < x}) = k - 1]

\* The deepest bracket nesting of the program.
NestingDepth(code) ==
    CHOOSE d \in 0..Len(code) :
       /\ \E k \in 0..Len(code) : Balance(code, k) = d
       /\ \A k \in 0..Len(code) : Balance(code, k) <= d

\* The texts of the bracket checks made while the loop runs (lines 126,
\* 136).
RuntimeBracketTexts == {"UnmatchedOpenBracket", "UnmatchedCloseBracket"}

\* The entry of a stream is a line of the debug trace.
IsDebugLine(x) == x.kind = "debug"

\* The entry of a stream is anything but a line of the debug trace.
IsNoDebugLine(x) == x.kind # "debug"

\* The value of cell i, a cell beyond the end of the tape reading as zero.
CellOrZero(e, i) == IF i < Len(e.memory) THEN Cell(e.memory, i) ELSE 0

\* Two interpreters show the same result, output, data pointer and cells.
SameOutcome(a, b) ==
    /\ a.pc = b.pc
    /\ a.ret = b.ret
    /\ a.cout = b.cout
    /\ a.cerr = b.cerr
    /\ a.memptr = b.memptr
    /\ \A i \in 0..(TapeCap + 1) : CellOrZero(a, i) = CellOrZero(b, i)

----------------------------------------------------------------------------
\* The reference interpreter with a table of matching brackets, beside the
\* engine

\* The longest program of this specification.
MaxRef == 5

\* Every bracket-balanced program of at most MaxRef instructions over
\* '[', ']', '-', '>', '.', ','.
RefTexts ==
    {t \in UNION {[1..n -> {"[", "]", "-", ">", ".", ","}] : n \in 0..MaxRef} :
        Balanced(t)}

\* The position of the '[' that matches the ']' at position q.
OpenOf(code, q) ==
    CHOOSE p \in 0..(q - 1) : code[p + 1] = "[" /\ MatchOf(code, p) = q

\* One step of the reference interpreter: '[' on a zero cell goes to its
\* matching ']', ']' on a nonzero cell goes to its matching '[', and the
\* instruction pointer moves on; the other instructions act on the tape and
\* the streams as in the engine; past the last instruction it returns true.
referencePass(e) ==
    IF e.codeptr < Len(e.code)
    THEN LET c == e.code[e.codeptr + 1]
             r == CASE c = "[" ->
                         IF Cell(e.memory, e.memptr) = 0
                         THEN [e EXCEPT !.codeptr = MatchOf(e.code, e.codeptr)]
                         ELSE e
                    [] c = "]" ->
                         IF Cell(e.memory, e.memptr) # 0
                         THEN [e EXCEPT !.codeptr = OpenOf(e.code, e.codeptr)]
                         ELSE e
                    [] OTHER -> dispatch(e)
         IN  IF r.pc = "running" THEN [r EXCEPT !.codeptr = @ + 1] ELSE r
    ELSE [e EXCEPT !.pc = "idle", !.ret = "true"]

\* The invocation of main with a balanced program (lines 308-337); the
\* twin is the reference interpreter with the same program.
InitR ==
    /\ \E program \in RefTexts :
          /\ interpreter = loadCode(NewInterpreter, program)
          /\ twin = loadCode(NewInterpreter, program)
    /\ lastOp = "loadCode"
    /\ valid = FALSE
    /\ shell = NewShell
    /\ executed = <<>>
    /\ view = NoView

\* A call of execute(); the reference interpreter starts on a zeroed tape
\* of the same length with the same input.
ExecuteReference ==
    /\ interpreter.pc = "idle"
    /\ twin.pc = "idle"
    /\ \E input \in Inputs :
          LET e == [interpreter EXCEPT !.cin = input,
                                       !.cout = <<>>,
                                       !.cerr = <<>>,
                                       !.ret = "none"]
          IN  /\ interpreter' = executeEntry(e)
              /\ twin' = [e EXCEPT !.codeptr = 0,
                                   !.memptr = 0,
                                   !.loop_stack = <<>>,
                                   !.memory = Zeros(Len(e.memory)),
                                   !.pc = "running"]
    /\ lastOp' = "execute"
    /\ UNCHANGED <<valid, aux>>

\* One pass of the loop of execute(), or its return, and one step of the
\* reference interpreter, of each that is still running.
ReferenceStep ==
    /\ interpreter.pc = "running" \/ twin.pc = "running"
    /\ Len(interpreter.cout) < MaxOut
    /\ interpreter' = advance(interpreter)
    /\ twin' = IF twin.pc = "running" THEN referencePass(twin) ELSE twin
    /\ UNCHANGED <<lastOp, valid, aux>>

NextR == ExecuteReference \/ ReferenceStep

SpecR == InitR /\ [][NextR]_vars

----------------------------------------------------------------------------
\* C1: a call of execute() on a program that fails validateBrackets returns
\* false with the unmatched-brackets text as its only message and leaves
\* the tape, its length, the data pointer, the instruction pointer and the
\* loop-return stack as they were.
C1_InvalidExecuteMutatesNothing ==
    [][(CallOfExecute /\ ~validateBrackets(interpreter.code)) =>
          /\ interpreter'.pc = "idle"
          /\ interpreter'.ret = "false"
          /\ Reasons(interpreter') = {"UnmatchedBrackets"}
          /\ interpreter'.memory = interpreter.memory
          /\ interpreter'.memptr = interpreter.memptr
          /\ interpreter'.codeptr = interpreter.codeptr
          /\ interpreter'.loop_stack = interpreter.loop_stack
          /\ interpreter'.code = interpreter.code]_vars

\* C1 witness: execute() refused a program while the engine held a grown,
\* nonzero tape, a moved data pointer and a stale stack entry.
C1_Witness ==
    /\ Returned
    /\ interpreter.ret = "false"
    /\ Reasons(interpreter) = {"UnmatchedBrackets"}
    /\ Len(interpreter.memory) > TapeInit
    /\ Cell(interpreter.memory, 0) # 0
    /\ interpreter.memptr > 0
    /\ interpreter.loop_stack # <<>>

\* C2: in every state the data pointer is an index of the tape.
C2_DataPointerInTape ==
    /\ interpreter.memptr >= 0
    /\ interpreter.memptr < Len(interpreter.memory)

\* C3: outside a run of execute(), that is before every call and after
\* every return, the loop-return stack is empty.
C3_StackEmptyOutsideRun ==
    interpreter.pc = "idle" => interpreter.loop_stack = <<>>

\* C4: validateBrackets returns true exactly for the programs whose bracket
\* balance is never negative at a prefix and zero at the end, and the call
\* changes nothing of the interpreter.
C4_ValidateIsBalance ==
    /\ [](lastOp = "validateBrackets" => (valid <=> Balanced(interpreter.code)))
    /\ [][(interpreter.pc = "idle" /\ lastOp' = "validateBrackets") =>
             interpreter' = interpreter]_vars

\* C4 witness: validateBrackets accepted a program with nested loops on an
\* interpreter whose data pointer an earlier run had moved.
C4_Witness ==
    /\ lastOp = "validateBrackets"
    /\ valid
    /\ interpreter.code = <<">", "[", "[", "]", "]">>
    /\ interpreter.memptr > 0

\* C5: the tape length is always in the doubling sequence from the initial
\* size to the cap; it changes only in a '>' step that takes the data
\* pointer to or past the end, and then it grows.
C5_TapeLengthDoubling ==
    /\ [](Len(interpreter.memory) \in DoublingFrom(TapeInit))
    /\ [][Len(interpreter'.memory) # Len(interpreter.memory) =>
             (RightAtEnd /\ Len(interpreter'.memory) > Len(interpreter.memory))]_vars

\* C5 witness: a run is under way on a tape that grew once, with the data
\* pointer in the new part.
C5_Witness ==
    /\ interpreter.pc = "running"
    /\ Len(interpreter.memory) = Min(2 * TapeInit, TapeCap)
    /\ interpreter.memptr >= TapeInit

\* C6: a '>' that takes the data pointer to or past the end doubles the
\* tape (up to the cap), keeping every cell and adding zero cells, when the
\* tape is below the cap; at the cap it makes execute() return false with
\* the memory-limit text and the tape unchanged.
C6_GrowthKeepsCells ==
    [][RightAtEnd =>
          IF Len(interpreter.memory) < TapeCap
          THEN /\ Len(interpreter'.memory) = Min(2 * Len(interpreter.memory), TapeCap)
               /\ \A i \in 1..Len(interpreter.memory) :
                     interpreter'.memory[i] = interpreter.memory[i]
               /\ \A i \in (Len(interpreter.memory) + 1)..Len(interpreter'.memory) :
                     interpreter'.memory[i] = 0
               /\ interpreter'.pc = "running"
          ELSE /\ interpreter'.pc = "idle"
               /\ interpreter'.ret = "false"
               /\ Reasons(interpreter') = {"MemoryLimitExceeded"}
               /\ interpreter'.memory = interpreter.memory]_vars

\* C6 witness: a run whose tape grew to the cap with nonzero cells in its
\* first part was stopped by the memory limit.
C6_Witness ==
    /\ Returned
    /\ interpreter.ret = "false"
    /\ Reasons(interpreter) = {"MemoryLimitExceeded"}
    /\ Len(interpreter.memory) = TapeCap
    /\ Cell(interpreter.memory, 0) # 0

\* C7 as stated: when execute() has returned, its result, output, data
\* pointer and cells are those of a new interpreter given the same program
\* and input.
C7_OutcomeIndependentOfHistory ==
    Returned => SameOutcome(interpreter, twin)

\* C7 amended: for a program that passes validateBrackets, at every step of
\* the run and at its return the interpreter and a new interpreter given
\* the same program and input agree on whether the run has ended, on the
\* result, the output, the data pointer and the value of every cell (a
\* cell beyond the end of a tape reading as zero).
C7_ValidRunIndependentOfHistory ==
    (lastOp = "execute" /\ validateBrackets(interpreter.code)) =>
        SameOutcome(interpreter, twin)

\* C7 witness: a run that wrote output ended successfully on a tape that
\* earlier operations had grown beyond what the program itself needs.
C7_Witness ==
    /\ Returned
    /\ interpreter.ret = "true"
    /\ interpreter.cout # <<>>
    /\ Len(interpreter.memory) > Len(twin.memory)

\* C8: reset() leaves every cell zero, both pointers 0 and the stack empty,
\* and changes neither the program nor the tape length.
C8_ResetClearsKeepsLength ==
    [][CallOfReset =>
          /\ interpreter'.memory = Zeros(Len(interpreter.memory))
          /\ interpreter'.memptr = 0
          /\ interpreter'.codeptr = 0
          /\ interpreter'.loop_stack = <<>>
          /\ interpreter'.code = interpreter.code]_vars

\* C8 witness: reset() was called on an interpreter with a program loaded
\* and a tape that had grown.
C8_Witness ==
    /\ lastOp = "reset"
    /\ interpreter.code # <<>>
    /\ Len(interpreter.memory) > TapeInit
    /\ interpreter.memory = Zeros(Len(interpreter.memory))

\* C9: a program with an unmatched bracket never gets to run an
\* instruction: the call of execute() returns false at once with the
\* unmatched-brackets text.
C9_UnmatchedNeverRuns ==
    /\ [](interpreter.pc = "running" => Balanced(interpreter.code))
    /\ [][(CallOfExecute /\ ~Balanced(interpreter.code)) =>
             /\ interpreter'.pc = "idle"
             /\ interpreter'.ret = "false"
             /\ Reasons(interpreter') = {"UnmatchedBrackets"}]_vars

\* C9 witness: execute() refused the program "[+".
C9_Witness ==
    /\ Returned
    /\ interpreter.code = <<"[", "+">>
    /\ interpreter.ret = "false"
    /\ Reasons(interpreter) = {"UnmatchedBrackets"}

\* C10: when execute() has returned false, a reason text is on the error
\* stream and the output stream holds only bytes written by '.'.
C10_ReasonOnErrorStream ==
    (Returned /\ interpreter.ret = "false") =>
        /\ \E i \in 1..Len(interpreter.cerr) : interpreter.cerr[i].kind # "byte"
        /\ \A i \in 1..Len(interpreter.cout) : interpreter.cout[i].kind = "byte"

\* C11: the program of n '+' followed by "[-]", n in 0..255, returns true
\* with the current cell 0 after exactly n executions of the loop body '-'
\* (none for n = 0, where '[' is the only instruction of the loop that
\* runs); while it runs no instruction is executed more often than that,
\* so the run ends after at most 3n + 1 instructions.
C11_CountedLoopRunsNTimes ==
    LET n == Len(interpreter.code) - 3
    IN  /\ (lastOp = "execute" /\ interpreter.pc = "running") =>
              /\ \A i \in 1..(n + 1) : executed[i] <= 1
              /\ executed[n + 2] <= n
              /\ executed[n + 3] <= n
        /\ Returned =>
              /\ interpreter.ret = "true"
              /\ interpreter.memptr = 0
              /\ Cell(interpreter.memory, 0) = 0
              /\ \A i \in 1..(n + 1) : executed[i] = 1
              /\ executed[n + 2] = n
              /\ executed[n + 3] = n

\* C11 witness: the program with 255 '+' has returned after 255 executions
\* of its loop body.
C11_Witness ==
    /\ Returned
    /\ Len(interpreter.code) = 258
    /\ executed[257] = 255
    /\ interpreter.ret = "true"

\* C12: every cell always holds a value in 0..255; a '+' leaves (v + 1) mod
\* 256 and a '-' leaves (v - 1) mod 256 in the current cell, where v is the
\* value it held, and neither changes another cell, the tape length or the
\* data pointer.
C12_ArithmeticMod256 ==
    /\ [](\A i \in 1..Len(interpreter.memory) : interpreter.memory[i] \in 0..255)
    /\ [][(Executing("+") \/ Executing("-")) =>
             LET v == Cell(interpreter.memory, interpreter.memptr)
                 d == IF Executing("+") THEN 1 ELSE -1
             IN  /\ interpreter'.memptr = interpreter.memptr
                 /\ Len(interpreter'.memory) = Len(interpreter.memory)
                 /\ \A i \in 0..(Len(interpreter.memory) - 1) :
                       Cell(interpreter'.memory, i) =
                          IF i = interpreter.memptr THEN (v + d) % 256
                          ELSE Cell(interpreter.memory, i)]_vars

\* C12 witness: "-+" has run: 0 - 1 gave 255 and 255 + 1 gave 0.
C12_Witness ==
    /\ Returned
    /\ interpreter.code = <<"-", "+">>
    /\ interpreter.ret = "true"
    /\ Cell(interpreter.memory, 0) = 0

\* C13: when execute() has returned on k times '<' followed by a program,
\* its result, output, error text, data pointer and tape are those of
\* execute() on the program alone, started from the same tape and pointers
\* on the same input.
C13_LeadingLeftIsNoOp ==
    Returned =>
       /\ twin.pc = "idle"
       /\ interpreter.ret = twin.ret
       /\ interpreter.cout = twin.cout
       /\ interpreter.cerr = twin.cerr
       /\ interpreter.memptr = twin.memptr
       /\ interpreter.memory = twin.memory

\* C13 witness: "<<+." has returned, having written the byte 1.
C13_Witness ==
    /\ Returned
    /\ interpreter.code = <<"<", "<", "+", ".">>
    /\ twin.code = <<"+", ".">>
    /\ interpreter.ret = "true"
    /\ interpreter.cout = <<Byte(1)>>

\* C14: a load or code command that is accepted leaves as the program
\* exactly the instruction symbols of its text, in order, whatever was
\* loaded before; loading that program again gives the same program; the
\* tape, the data pointer, the instruction pointer and the loop stack stay.
C14_LoadKeepsInstructions ==
    [][shell'.said = "Loaded" =>
          /\ IsInstructionsOf(interpreter'.code, shell'.current_program)
          /\ loadCode(interpreter, interpreter'.code).code = interpreter'.code
          /\ interpreter'.memory = interpreter.memory
          /\ interpreter'.memptr = interpreter.memptr
          /\ interpreter'.codeptr = interpreter.codeptr
          /\ interpreter'.loop_stack = interpreter.loop_stack]_vars

\* C14 witness: "x+>" was loaded over the program ",." that had been run
\* on the byte 2, which is still in the first cell.
C14_Witness ==
    /\ shell.said = "Loaded"
    /\ shell.current_program = <<"x", "+", ">">>
    /\ interpreter.code = <<"+", ">">>
    /\ interpreter.cout = <<Byte(2)>>
    /\ Cell(interpreter.memory, 0) = 2

\* C15: a ',' on an exhausted input stream sets the current cell to 0, a
\* ',' with a byte available stores that byte and takes exactly it from
\* the stream; in both cases the run goes on with the next instruction and
\* no other cell and no pointer changes.
C15_InputOrZero ==
    [][Executing(",") =>
          /\ interpreter'.pc = "running"
          /\ interpreter'.codeptr = interpreter.codeptr + 1
          /\ interpreter'.memptr = interpreter.memptr
          /\ Len(interpreter'.memory) = Len(interpreter.memory)
          /\ \A i \in 0..(Len(interpreter.memory) - 1) :
                i # interpreter.memptr =>
                   Cell(interpreter'.memory, i) = Cell(interpreter.memory, i)
          /\ IF interpreter.cin = <<>>
             THEN /\ Cell(interpreter'.memory, interpreter.memptr) = 0
                  /\ interpreter'.cin = <<>>
             ELSE /\ Cell(interpreter'.memory, interpreter.memptr) = Head(interpreter.cin)
                  /\ Cell(interpreter'.memory, interpreter.memptr) \in 0..255
                  /\ interpreter'.cin = Tail(interpreter.cin)]_vars

\* C15 witness: ",.," on the single byte 255 has returned true: the first
\* ',' stored 255, which was written, and the second found the stream
\* exhausted and stored 0.
C15_Witness ==
    /\ Returned
    /\ interpreter.code = <<",", ".", ",">>
    /\ interpreter.ret = "true"
    /\ interpreter.cout = <<Byte(255)>>
    /\ interpreter.cin = <<>>
    /\ Cell(interpreter.memory, 0) = 0

\* C16 as stated: while execute() runs, a '.' appends to the output exactly
\* one byte, the value of the current cell, and changes nothing else of the
\* interpreter but the instruction pointer, which moves on; no other step
\* of the run appends anything to the output.  So the output of a run is
\* the sequence of the cell values at its '.' instructions.
C16_OutputIsCellsAtPut ==
    [][interpreter.pc = "running" =>
          IF Executing(".")
          THEN interpreter' =
                  [interpreter EXCEPT
                      !.cout = Append(@, Byte(Cell(interpreter.memory,
                                                   interpreter.memptr))),
                      !.codeptr = @ + 1]
          ELSE interpreter'.cout = interpreter.cout]_vars

\* C17 as stated: dumpMemory(start, count) changes nothing of the
\* interpreter; for start below the tape length it reports, in order,
\* exactly the cells start .. min(start + count, tape length) - 1 with
\* their values, the cell at the data pointer marked and no other; for
\* start at or past the tape length it reports the error and no cell.
C17_DumpReportsWindow ==
    [][shell'.said = "dump" =>
          /\ interpreter' = interpreter
          /\ IF view'.start < Len(interpreter.memory)
             THEN LET end == Min(view'.start + view'.count, Len(interpreter.memory))
                  IN  /\ ~view'.error
                      /\ Len(view'.cells) = end - view'.start
                      /\ \A k \in 1..Len(view'.cells) :
                            /\ view'.cells[k].index = view'.start + k - 1
                            /\ view'.cells[k].value =
                                  Cell(interpreter.memory, view'.start + k - 1)
                            /\ view'.cells[k].marked <=>
                                  (view'.start + k - 1 = interpreter.memptr)
             ELSE view'.error /\ view'.cells = <<>>]_vars

\* C18: the shell answers an unknown command and a malformed one with a
\* text, changes neither its program text and debug mode nor anything of
\* the interpreter, and stays in its loop; it leaves the loop only on
\* exit, quit, q or the end of the input.
C18_MalformedCommandHarmless ==
    /\ [][(HandlesLine /\ (IsUnknown(shell'.line) \/ IsMalformed(shell'.line))) =>
             /\ shell'.said # ""
             /\ shell'.pc = "reading"
             /\ shell'.current_program = shell.current_program
             /\ shell'.debug_mode = shell.debug_mode
             /\ interpreter' = interpreter]_vars
    /\ [][(shell.pc = "reading" /\ shell'.pc # "reading") =>
             (shell'.line.eof \/ IsExit(shell'.line))]_vars

\* C18 witness: with a program loaded and run, "dump x" was answered with
\* the text of the catch clause and the shell reads on.
C18_Witness ==
    /\ shell.line = Line("dump", << <<"x">> >>)
    /\ shell.said = "Error occurred"
    /\ shell.pc = "reading"
    /\ shell.current_program = <<",", "x", ".">>
    /\ interpreter.code = <<",", ".">>
    /\ Cell(interpreter.memory, 0) = 2

\* C19: a load of a name with ".." or of a file above the size limit, and
\* a code command with a text above the length limit, are refused with
\* their error text; the shell's program text and the interpreter (its
\* program included) stay as they were.
C19_OverLimitRefused ==
    [][(HandlesLine /\ IsOverLimit(shell'.line)) =>
          /\ shell'.said \in {"Invalid filename", "File too large", "Program too long"}
          /\ shell'.current_program = shell.current_program
          /\ interpreter' = interpreter]_vars

\* C19 witness: after "x+>" was loaded, a text one character above the
\* limit was refused and the program is still there.
C19_Witness ==
    /\ shell.said = "Program too long"
    /\ TextLength(shell.line.args) = InlineLimit + 1
    /\ shell.current_program = <<"x", "+", ">">>
    /\ interpreter.code = <<"+", ">">>

\* C20: while execute() runs a balanced program, the loop stack holds, in
\* ascending order, exactly the positions of the '[' whose loops enclose
\* the instruction pointer, so it is never deeper than the nesting of the
\* program; a '[' on a zero cell goes on just after its matching ']' with
\* the stack untouched, a '[' on a nonzero cell pushes its own position and
\* goes on with the next instruction; at a ']' the top of the stack is the
\* position of its matching '[', a nonzero cell goes on just after that
\* '[' with the stack untouched, and a zero cell pops that entry and goes
\* on with the next instruction.
C20_LoopStackDiscipline ==
    /\ []((interpreter.pc = "running" /\ Balanced(interpreter.code)) =>
             /\ interpreter.loop_stack =
                   Ascending(Enclosing(interpreter.code, interpreter.codeptr))
             /\ Len(interpreter.loop_stack) <= NestingDepth(interpreter.code))
    /\ [][(Executing("[") /\ Balanced(interpreter.code)) =>
             IF Cell(interpreter.memory, interpreter.memptr) = 0
             THEN /\ interpreter'.codeptr =
                        MatchOf(interpreter.code, interpreter.codeptr) + 1
                  /\ interpreter'.loop_stack = interpreter.loop_stack
             ELSE /\ interpreter'.codeptr = interpreter.codeptr + 1
                  /\ interpreter'.loop_stack =
                        Append(interpreter.loop_stack, interpreter.codeptr)]_vars
    /\ [][(Executing("]") /\ Balanced(interpreter.code)) =>
             LET stack == interpreter.loop_stack
             IN  /\ stack # <<>>
                 /\ interpreter.code[stack[Len(stack)] + 1] = "["
                 /\ MatchOf(interpreter.code, stack[Len(stack)]) = interpreter.codeptr
                 /\ IF Cell(interpreter.memory, interpreter.memptr) # 0
                    THEN /\ interpreter'.codeptr = stack[Len(stack)] + 1
                         /\ interpreter'.loop_stack = stack
                    ELSE /\ interpreter'.codeptr = interpreter.codeptr + 1
                         /\ interpreter'.loop_stack =
                               SubSeq(stack, 1, Len(stack) - 1)]_vars

\* C20 witness: in "-[[-]]" the inner loop has been entered, has jumped
\* back, and the run is at the inner ']' with both '[' on the stack.
C20_Witness ==
    /\ interpreter.pc = "running"
    /\ interpreter.code = <<"-", "[", "[", "-", "]", "]">>
    /\ interpreter.codeptr = 4
    /\ interpreter.loop_stack = <<1, 2>>
    /\ Cell(interpreter.memory, 0) = 0

\* C21: in debug mode every pass of the loop of execute() appends to the
\* error stream exactly one line, with the instruction pointer, the symbol,
\* the data pointer and the value of the current cell as they are before
\* the instruction acts, and without debug mode it appends nothing; no
\* such line is on the output stream; and at every moment result, output,
\* tape, data pointer, instruction pointer, loop stack and input left are
\* those of the same run with debug mode off, as is the error stream with
\* the debug lines taken out.
C21_DebugTraceOnly ==
    /\ [][(interpreter.pc = "running" /\ interpreter.codeptr < Len(interpreter.code)) =>
             interpreter'.cerr =
                IF interpreter.debug_mode
                THEN Append(interpreter.cerr,
                            Text("debug", <<interpreter.codeptr,
                                            interpreter.code[interpreter.codeptr + 1],
                                            interpreter.memptr,
                                            Cell(interpreter.memory, interpreter.memptr)>>))
                ELSE interpreter.cerr]_vars
    /\ [](lastOp = "execute" =>
             /\ SelectSeq(interpreter.cout, IsDebugLine) = <<>>
             /\ SelectSeq(interpreter.cerr, IsNoDebugLine) = twin.cerr
             /\ interpreter.pc = twin.pc
             /\ interpreter.ret = twin.ret
             /\ interpreter.cout = twin.cout
             /\ interpreter.cin = twin.cin
             /\ interpreter.memory = twin.memory
             /\ interpreter.memptr = twin.memptr
             /\ interpreter.codeptr = twin.codeptr
             /\ interpreter.loop_stack = twin.loop_stack)

\* C21 witness: "+." has returned in debug mode with the byte 1 written
\* and the two lines of its trace on the error stream.
C21_Witness ==
    /\ Returned
    /\ interpreter.debug_mode
    /\ interpreter.code = <<"+", ".">>
    /\ interpreter.ret = "true"
    /\ interpreter.cout = <<Byte(1)>>
    /\ interpreter.cerr = <<Text("debug", <<0, "+", 0, 0>>),
                            Text("debug", <<1, ".", 0, 1>>)>>

\* C22: no call of execute() ever writes the text of a bracket check of
\* the loop; whenever the loop entered without validation on the same
\* program, tape and input writes one, the call of execute() had refused
\* the program with the unmatched-brackets text before running anything.
C22_ValidateHasNoGap ==
    /\ Reasons(interpreter) \cap RuntimeBracketTexts = {}
    /\ (lastOp = "execute" /\ Reasons(twin) \cap RuntimeBracketTexts # {}) =>
          /\ interpreter.pc = "idle"
          /\ interpreter.ret = "false"
          /\ Reasons(interpreter) = {"UnmatchedBrackets"}
          /\ interpreter.cout = <<>>

\* C22 witness: entered without validation, "+>]" reaches its ']' with the
\* stack empty; execute() had refused it.
C22_Witness ==
    /\ lastOp = "execute"
    /\ interpreter.code = <<"+", ">", "]">>
    /\ Reasons(twin) = {"UnmatchedCloseBracket"}
    /\ Cell(twin.memory, 0) = 1
    /\ interpreter.ret = "false"
    /\ Reasons(interpreter) = {"UnmatchedBrackets"}

\* C23: on a balanced program, at every step of a call of execute() the
\* engine and the reference interpreter, started on the same input, have
\* written the same output, hold the same tape and data pointer, are at the
\* same instruction, and have both returned, with the same result and the
\* same texts, or both not.
C23_EngineIsReference ==
    lastOp = "execute" =>
       /\ interpreter.pc = twin.pc
       /\ interpreter.ret = twin.ret
       /\ interpreter.cout = twin.cout
       /\ interpreter.cerr = twin.cerr
       /\ interpreter.cin = twin.cin
       /\ interpreter.memory = twin.memory
       /\ interpreter.memptr = twin.memptr
       /\ interpreter.codeptr = twin.codeptr

\* C23 witness: on ",[.-]" with the byte 2 both have returned true, having
\* written 2 and 1.
C23_Witness ==
    /\ Returned
    /\ interpreter.code = <<",", "[", ".", "-", "]">>
    /\ interpreter.ret = "true"
    /\ twin.ret = "true"
    /\ twin.cout = <<Byte(2), Byte(1)>>
    /\ interpreter.cout = <<Byte(2), Byte(1)>>

====
